---------------------------- MODULE Spec2Model ----------------------------
(***************************************************************************)
(* A model of mainscript.py: the linear congruential generator (rand_int), *)
(* the Fisher-Yates shuffle (shuffle_in_place), the hand ranking engine    *)
(* (rank_5cards, rank_7cards) and the Monte Carlo equity simulator         *)
(* (simulate_win_probability).                                             *)
(*                                                                         *)
(* A card is the tuple <<rank, suit>>, a hand strength is a tuple of       *)
(* integers compared as Python compares tuples.  A call either returns a   *)
(* value or raises: Ret(v) and Raise(e) below.                             *)
(***************************************************************************)
EXTENDS Integers, Sequences, FiniteSets, TLC

(***************************************************************************)
(* Bounds of the model.                                                    *)
(***************************************************************************)
\* The model's cards have the ranks 2..TopLowRank and the ace (14).
TopLowRank == 6

\* The longest list a caller of the ranking engine builds.
MaxHand == 8

\* Lists of more than five cards hold cards of the suits below LongSuits and,
\* in every suit, cards of the ranks up to SmallTopRank.  Lists with a card
\* twice and lists of more than seven cards hold cards of the ranks up to
\* SmallTopRank only.
LongSuits == 2

SmallTopRank == 3

\* rand_int is called directly at most MaxCalls times, and at most MaxWarm
\* times before simulate_win_probability is called.
MaxCalls == 40

MaxWarm == 1

\* The arguments of a direct call of rand_int are in -ArgMax..ArgMax.
ArgMax == 3

\* simulate_win_probability is called with at most MaxOpp opponents and at
\* most MaxSims simulations.
MaxOpp == 2

MaxSims == 2

(***************************************************************************)
(* Python values.                                                          *)
(***************************************************************************)
Ret(v) == [err |-> "none", val |-> v]

Raise(e) == [err |-> e, val |-> <<>>]

Returned(r) == r.err = "none"

Min2(a, b) == IF a < b THEN a ELSE b

\* Python's a > b on tuples of integers: the first differing position decides,
\* and a tuple that extends the other is the greater.
TupleGT(a, b) ==
    LET n == Min2(Len(a), Len(b))
        diff == {i \in 1..n : a[i] # b[i]}
    IN  IF diff = {}
        THEN Len(a) > Len(b)
        ELSE LET d == CHOOSE i \in diff : \A k \in diff : i <= k
             IN  a[d] > b[d]

\* lst.count(x)
CountOf(lst, x) == Cardinality({i \in 1..Len(lst) : lst[i] = x})

\* x in lst
InList(x, lst) == \E i \in 1..Len(lst) : lst[i] = x

\* No element of lst occurs twice.
Distinct(lst) == \A i, k \in 1..Len(lst) : i # k => lst[i] # lst[k]

(***************************************************************************)
(* Sorting.  sorted(..., reverse=True) and list.sort(reverse=True) are     *)
(* stable: of two elements with equal keys the earlier stays first.  Each  *)
(* sort inserts the elements one by one, an element after every element   *)
(* whose key is not smaller.                                               *)
(***************************************************************************)
RECURSIVE insert_card(_, _)
\* key=lambda c: c[0]
insert_card(s, x) ==
    IF s = <<>> THEN <<x>>
    ELSE IF x[1] > Head(s)[1] THEN <<x>> \o s
    ELSE <<Head(s)>> \o insert_card(Tail(s), x)

RECURSIVE sort_cards_from(_, _)
sort_cards_from(acc, rest) ==
    IF rest = <<>> THEN acc
    ELSE sort_cards_from(insert_card(acc, Head(rest)), Tail(rest))

RECURSIVE insert_pair(_, _)
\* key=lambda x: (x[0], x[1])
insert_pair(s, x) ==
    IF s = <<>> THEN <<x>>
    ELSE IF x[1] > Head(s)[1] \/ (x[1] = Head(s)[1] /\ x[2] > Head(s)[2])
         THEN <<x>> \o s
    ELSE <<Head(s)>> \o insert_pair(Tail(s), x)

RECURSIVE sort_pairs_from(_, _)
sort_pairs_from(acc, rest) ==
    IF rest = <<>> THEN acc
    ELSE sort_pairs_from(insert_pair(acc, Head(rest)), Tail(rest))

RECURSIVE insert_rank(_, _)
\* no key: the ranks themselves
insert_rank(s, x) ==
    IF s = <<>> THEN <<x>>
    ELSE IF x > Head(s) THEN <<x>> \o s
    ELSE <<Head(s)>> \o insert_rank(Tail(s), x)

RECURSIVE sort_ranks_from(_, _)
sort_ranks_from(acc, rest) ==
    IF rest = <<>> THEN acc
    ELSE sort_ranks_from(insert_rank(acc, Head(rest)), Tail(rest))

\* count_rank_pairs.sort(key=lambda x: (x[0], x[1]), reverse=True)
sort_pairs_desc(pairs) == sort_pairs_from(<<>>, pairs)

\* kickers.sort(reverse=True)
sort_ranks_desc(ranks) == sort_ranks_from(<<>>, ranks)

(***************************************************************************)
(* rank_5cards                                                             *)
(***************************************************************************)
\* sorted(cards5, key=lambda c: c[0], reverse=True), and the mutant that
\* leaves the cards in the order given.
Unsorted(cards5) == cards5

sorted_by_rank(cards5) == sort_cards_from(<<>>, cards5)

RECURSIVE DedupFrom(_, _)
DedupFrom(acc, rest) ==
    IF rest = <<>> THEN acc
    ELSE DedupFrom(IF InList(Head(rest), acc) THEN acc ELSE Append(acc, Head(rest)),
                   Tail(rest))

\* The ranks in the order of their first occurrence: distinct_ranks_desc, and
\* the keys of rank_counts in their insertion order.
distinct_ranks(ranks) == DedupFrom(<<>>, ranks)

\* <<is_straight, top_straight_rank>> without the wheel: the mutant of
\* straight_of that forgets the special case A,5,4,3,2.
straight_no_wheel(d) ==
    IF Len(d) >= 5
    THEN LET hits == {s \in 1..(Len(d) - 4) : d[s] - d[s + 4] = 4}
         IN  IF hits # {}
             THEN <<TRUE, d[CHOOSE s \in hits : \A t \in hits : s <= t]>>
             ELSE <<FALSE, 0>>
    ELSE <<FALSE, 0>>

\* <<is_straight, top_straight_rank>> of the distinct ranks d: the first window
\* of five whose ends differ by 4, else the wheel.
straight_of(d) ==
    IF Len(d) >= 5
    THEN LET hits == {s \in 1..(Len(d) - 4) : d[s] - d[s + 4] = 4}
         IN  IF hits # {}
             THEN <<TRUE, d[CHOOSE s \in hits : \A t \in hits : s <= t]>>
             ELSE IF /\ InList(14, d) /\ InList(5, d) /\ InList(4, d)
                     /\ InList(3, d) /\ InList(2, d)
                  THEN <<TRUE, 5>>
                  ELSE <<FALSE, 0>>
    ELSE <<FALSE, 0>>

RECURSIVE Repeat(_, _)
Repeat(x, n) == IF n <= 0 THEN <<>> ELSE <<x>> \o Repeat(x, n - 1)

RECURSIVE kickers_from(_, _)
\* The ranks of count_rank_pairs[i..], each as often as its count.
kickers_from(crp, i) ==
    IF i > Len(crp) THEN <<>>
    ELSE Repeat(crp[i][2], crp[i][1]) \o kickers_from(crp, i + 1)

\* The two pair ranks as the code orders them: the higher pair first.
two_pair_order(p1, p2) == IF p1 < p2 THEN <<p2, p1>> ELSE <<p1, p2>>

rank_5cards(cards5) ==
    LET sorted_cards == sorted_by_rank(cards5)
        n == Len(sorted_cards)
        ranks == [i \in 1..n |-> sorted_cards[i][1]]
        suits == [i \in 1..n |-> sorted_cards[i][2]]
        distinct_ranks_desc == distinct_ranks(ranks)
        st == straight_of(distinct_ranks_desc)
        is_straight == st[1]
        top_straight_rank == st[2]
        unsorted_pairs == [i \in 1..Len(distinct_ranks_desc) |->
                             <<CountOf(ranks, distinct_ranks_desc[i]),
                               distinct_ranks_desc[i]>>]
        count_rank_pairs == sort_pairs_desc(unsorted_pairs)
        m == Len(count_rank_pairs)
    IN  IF n = 0 THEN Raise("IndexError")                       \* suits[0]
        ELSE
        LET is_flush == CountOf(suits, suits[1]) = 5
            c0 == count_rank_pairs[1][1]
        IN  IF is_flush /\ is_straight THEN Ret(<<9, top_straight_rank>>)
            ELSE IF c0 = 4 THEN
                IF m < 2 THEN Raise("IndexError")               \* count_rank_pairs[1]
                ELSE Ret(<<8, count_rank_pairs[1][2], count_rank_pairs[2][2]>>)
            ELSE IF c0 = 3 THEN
                IF m > 1 /\ count_rank_pairs[2][1] = 2
                THEN Ret(<<7, count_rank_pairs[1][2], count_rank_pairs[2][2]>>)
                ELSE Ret(<<4, count_rank_pairs[1][2]>>
                         \o sort_ranks_desc(kickers_from(count_rank_pairs, 2)))
            ELSE IF c0 = 2 THEN
                IF m > 1 /\ count_rank_pairs[2][1] = 2
                THEN IF m < 3 THEN Raise("IndexError")          \* count_rank_pairs[2]
                     ELSE LET pr == two_pair_order(count_rank_pairs[1][2],
                                                   count_rank_pairs[2][2])
                          IN  Ret(<<3, pr[1], pr[2], count_rank_pairs[3][2]>>)
                ELSE LET kickers == sort_ranks_desc(kickers_from(count_rank_pairs, 2))
                     IN  IF Len(kickers) < 3 THEN Raise("IndexError")   \* kickers[2]
                         ELSE Ret(<<2, count_rank_pairs[1][2],
                                    kickers[1], kickers[2], kickers[3]>>)
            ELSE IF is_flush
                THEN Ret(<<6, ranks[1], ranks[2], ranks[3], ranks[4], ranks[5]>>)
            ELSE IF is_straight THEN Ret(<<5, top_straight_rank>>)
            ELSE IF n < 5 THEN Raise("IndexError")              \* ranks[4]
            ELSE Ret(<<1, ranks[1], ranks[2], ranks[3], ranks[4], ranks[5]>>)

(***************************************************************************)
(* rank_7cards                                                             *)
(***************************************************************************)
\* The bound of the innermost loop, range(l+1, n), and the mutant that stops
\* one index early.
inner_stop_short(n) == n - 1

inner_stop(n) == n

\* The last index (from 1) the d-th of the five loops visits for n cards.
loop_stop(d, n) == IF d = 5 THEN inner_stop(n) ELSE (n - 5) + d

RECURSIVE loops_from(_, _, _)
\* The index tuples the loops visit, in their order, once the outer loops are
\* at the indices p and the next loop is at the index lo.
loops_from(p, lo, n) ==
    IF Len(p) = 5 THEN <<p>>
    ELSE IF lo > loop_stop(Len(p) + 1, n) THEN <<>>
    ELSE loops_from(Append(p, lo), lo + 1, n) \o loops_from(p, lo + 1, n)

\* The index tuples i < j < k < l < m (from 1) the five loops visit for n cards.
index_combos(n) == loops_from(<<>>, 1, n)

\* The index tuples for every length of list the model calls rank_7cards with.
ComboTable == [n \in 0..MaxHand |-> index_combos(n)]

RECURSIVE best_from(_, _, _, _)
\* The loop body from the i-th index tuple on, with best as it stands.
best_from(cards7, combos, i, best) ==
    IF i > Len(combos) THEN Ret(best)
    ELSE LET c == combos[i]
             combo5 == <<cards7[c[1]], cards7[c[2]], cards7[c[3]],
                         cards7[c[4]], cards7[c[5]]>>
             r5 == rank_5cards(combo5)
         IN  IF ~Returned(r5) THEN r5
             ELSE IF TupleGT(r5.val, best)
                  THEN best_from(cards7, combos, i + 1, r5.val)
                  ELSE best_from(cards7, combos, i + 1, best)

rank_7cards(cards7) ==
    best_from(cards7, ComboTable[Len(cards7)], 1, <<0>>)

(***************************************************************************)
(* rand_int and shuffle_in_place.  Python's integers are unbounded; TLC's  *)
(* are 32 bits wide, and the modulus 2147483648 = 2^31 is one more than    *)
(* the largest of them.  The register is always in 0..2^31 - 1, and the    *)
(* recurrence is computed exactly, in pieces of 15 bits that never exceed  *)
(* 32 bits.                                                                *)
(***************************************************************************)
InitialSeed == 5674832

Multiplier == 1103515245

Increment == 12345

\* The modulus less one: 2147483647.
ModulusLessOne == (2^30 - 1) + 2^30

\* (a + b) % 2147483648 for a, b in 0..2147483647.
AddMod(a, b) ==
    IF a > ModulusLessOne - b THEN (a - (ModulusLessOne - b)) - 1 ELSE a + b

\* (a * s) % 2147483648 for a, s in 0..2147483647.
MulMod(a, s) ==
    LET a0 == a % 2^15
        a1 == (a \div 2^15) % 2^15
        a2 == a \div 2^30
        s0 == s % 2^15
        s1 == (s \div 2^15) % 2^15
        s2 == s \div 2^30
        t0 == a0 * s0
        t1 == ((a0 * s1 + a1 * s0) % 2^16) * 2^15
        t2 == ((a0 * s2 + a1 * s1 + a2 * s0) % 2) * 2^30
    IN  AddMod(AddMod(t0, t1), t2)

\* The recurrence without its increment: a mutant of lcg_next.
lcg_no_increment(s) == MulMod(Multiplier, s)

\* (1103515245 * _seed + 12345) % 2147483648
lcg_next(s) == AddMod(MulMod(Multiplier, s), Increment)

\* Python's a % m for a >= 0 and m # 0: the result has the sign of m.
PyMod(a, m) ==
    IF m > 0 THEN a % m
    ELSE LET k == a % (0 - m) IN IF k = 0 THEN 0 ELSE k + m

\* low + _seed % (high - low + 1)
in_range(s, low, high) == low + PyMod(s, high - low + 1)

\* rand_int(low, high) with the register at s: the register after the call and
\* what the call returns or raises.  The register is assigned before the
\* remainder is taken.
rand_int(s, low, high) ==
    LET s1 == lcg_next(s)
    IN  [seed |-> s1,
         out  |-> IF high - low + 1 = 0 THEN Raise("ZeroDivisionError")
                  ELSE Ret(in_range(s1, low, high))]

\* lst[i] = lst[j] alone, the other half of the exchange lost: a mutant of Swap.
swap_half(lst, i, j) == [lst EXCEPT ![i] = lst[j]]

\* lst[i], lst[j] = lst[j], lst[i]
Swap(lst, i, j) == [lst EXCEPT ![i] = lst[j], ![j] = lst[i]]

RECURSIVE shuffle_from(_, _, _)
\* The loop of shuffle_in_place from index i (from 0, as in the code) down to 1.
\* Exchanging a position with itself leaves the list as it is.
shuffle_from(s, lst, i) ==
    IF i < 1 THEN [seed |-> s, lst |-> lst]
    ELSE LET r == rand_int(s, 0, i)
             j == r.out.val
         IN  IF j = i
             THEN shuffle_from(r.seed, lst, i - 1)
             ELSE shuffle_from(r.seed, Swap(lst, i + 1, j + 1), i - 1)

\* shuffle_in_place(lst) with the register at s: the register and the list after.
shuffle_in_place(s, lst) == shuffle_from(s, lst, Len(lst) - 1)

\* The number of rand_int calls shuffle_in_place(lst) makes.
shuffle_draws(lst) == IF Len(lst) > 1 THEN Len(lst) - 1 ELSE 0

(***************************************************************************)
(* Cards and decks                                                         *)
(***************************************************************************)
\* make_deck(): rank 2..14 in the outer loop, suit 0..3 in the inner loop.
make_deck == [i \in 1..52 |-> <<2 + ((i - 1) \div 4), (i - 1) % 4>>]

InModel(c) == c[1] <= TopLowRank \/ c[1] = 14

\* The cards of the model: make_deck() without the ranks above TopLowRank
\* other than the ace, in make_deck's order.
ModelDeck == SelectSeq(make_deck, InModel)

\* a comes before b in make_deck().
CardBefore(a, b) == a[1] < b[1] \/ (a[1] = b[1] /\ a[2] < b[2])

CardsOf(lst) == {lst[i] : i \in 1..Len(lst)}

(***************************************************************************)
(* The state.                                                              *)
(***************************************************************************)
VARIABLES
    seed,             \* _seed, the register of the generator
    draws,            \* the number of rand_int calls made so far
    rnd,              \* the last direct call of rand_int: its arguments and outcome
    pc,               \* where simulate_win_probability stands: idle, loop, done
    player_cards,     \* the arguments of simulate_win_probability ...
    known_community,
    num_opponents,
    deck,
    sims,
    base_deck,        \* ... and its locals
    wins,
    ties,
    total,
    trial,            \* the locals of the last trial of the loop
    result,           \* what simulate_win_probability returned or raised
    hand,             \* the list a caller hands to rank_5cards or rank_7cards
    ranked            \* the outcome of that call

rngVars == <<seed, draws, rnd>>

simVars == <<pc, player_cards, known_community, num_opponents, deck, sims,
             base_deck, wins, ties, total, trial, result>>

rankVars == <<hand, ranked>>

vars == <<rngVars, simVars, rankVars>>

(***************************************************************************)
(* Callers of the ranking engine: a caller builds a list of cards and      *)
(* calls rank_5cards or rank_7cards with it.                               *)
(***************************************************************************)
InLong(c) == c[2] < LongSuits \/ c[1] <= SmallTopRank

NotRanked == [fn |-> "none", res |-> Ret(<<>>)]

InitRank ==
    /\ hand = <<>>
    /\ ranked = NotRanked

\* The caller adds a card that is not in the list yet; the lists are built in
\* the order of make_deck().
DealCard ==
    /\ ranked = NotRanked
    /\ Distinct(hand)
    /\ Len(hand) < MaxHand
    /\ \E i \in 1..Len(ModelDeck) :
          LET c == ModelDeck[i]
              h == Append(hand, c)
          IN  /\ IF hand = <<>> THEN TRUE ELSE CardBefore(hand[Len(hand)], c)
              /\ Len(h) > 5 => \A k \in 1..Len(h) : InLong(h[k])
              /\ Len(h) > 7 => \A k \in 1..Len(h) : h[k][1] <= SmallTopRank
              /\ hand' = h
    /\ UNCHANGED <<ranked, rngVars, simVars>>

\* The caller adds a card the list holds already.
DealDuplicate ==
    /\ ranked = NotRanked
    /\ Distinct(hand)
    /\ Len(hand) < MaxHand
    /\ \A k \in 1..Len(hand) : hand[k][1] <= SmallTopRank
    /\ \E k \in 1..Len(hand) : hand' = Append(hand, hand[k])
    /\ UNCHANGED <<ranked, rngVars, simVars>>

CallRank5 ==
    /\ ranked = NotRanked
    /\ ranked' = [fn |-> "rank_5cards", res |-> rank_5cards(hand)]
    /\ UNCHANGED <<hand, rngVars, simVars>>

CallRank7 ==
    /\ ranked = NotRanked
    /\ ranked' = [fn |-> "rank_7cards", res |-> rank_7cards(hand)]
    /\ UNCHANGED <<hand, rngVars, simVars>>

NextRank ==
    \/ DealCard
    \/ DealDuplicate
    \/ CallRank5
    \/ CallRank7

(***************************************************************************)
(* simulate_win_probability                                                *)
(***************************************************************************)
\* lst[:n] and lst[n:] for n >= 0: a slice past the end is cut at the end.
Take(lst, n) == SubSeq(lst, 1, Min2(n, Len(lst)))

Drop(lst, n) == SubSeq(lst, Min2(n, Len(lst)) + 1, Len(lst))

\* c not in used_cards
not_used(c, used_cards) == ~InList(c, used_cards)

\* base_deck: the cards of deck that are not in used_cards, in deck's order.
exclude_used(dk, used_cards) ==
    LET keep(c) == not_used(c, used_cards) IN SelectSeq(dk, keep)

RECURSIVE deal_holes(_, _)
\* opp_holes: two cards from the front of sim_deck for each opponent in turn.
deal_holes(sim_deck, opps) ==
    IF opps <= 0 THEN <<>>
    ELSE <<Take(sim_deck, 2)>> \o deal_holes(Drop(sim_deck, 2), opps - 1)

\* Two mutants of count_trial: every trial that nobody wins against counted
\* as a tie, and the two branches of the inner test exchanged.
count_all_ties(best_count, same_count) ==
    IF best_count = 0 THEN <<0, 1>> ELSE <<0, 0>>

count_swapped(best_count, same_count) ==
    IF best_count = 0
    THEN IF same_count = 0 THEN <<0, 1>> ELSE <<1, 0>>
    ELSE <<0, 0>>

\* What a trial adds to <<wins, ties>>.
count_trial(best_count, same_count) ==
    IF best_count = 0
    THEN IF same_count = 0 THEN <<1, 0>> ELSE <<0, 1>>
    ELSE <<0, 0>>

RECURSIVE rank_each(_, _)
\* rank_7cards(oh + full_community) for each oh of opp_holes, in turn.  The
\* lists have no card twice, so rank_7cards returns.
rank_each(opp_holes, full_community) ==
    IF opp_holes = <<>> THEN <<>>
    ELSE <<rank_7cards(Head(opp_holes) \o full_community).val>>
         \o rank_each(Tail(opp_holes), full_community)

\* best_count and same_count: the opponents above the player, and level with
\* the player.
count_better(player_rank, opp_ranks) ==
    Cardinality({i \in 1..Len(opp_ranks) : TupleGT(opp_ranks[i], player_rank)})

count_same(player_rank, opp_ranks) ==
    Cardinality({i \in 1..Len(opp_ranks) :
                    /\ ~TupleGT(opp_ranks[i], player_rank)
                    /\ opp_ranks[i] = player_rank})

\* sim_deck = base_deck[:] binds sim_deck to a new list with the same cards.
\* The mutant binds it to the very list the name is bound to.
same_list(name) == name

slice_copy(name) == "sim_deck"

\* The lists bound to base_deck and to sim_deck once shuffle_in_place has left
\* the list sim_deck is bound to, the list called target, as shuffled.
lists_after(bdeck, target, shuffled) ==
    [[name \in {"base_deck", "sim_deck"} |-> bdeck] EXCEPT ![target] = shuffled]

\* Lines 347 to 361 with the register at s: the clone shuffled, the board
\* completed and the hole cards dealt.
deal_from(sh, known, opps) ==
    [seed |-> sh.seed,
     shuffled |-> sh.lst,
     community_rest |-> Take(sh.lst, 5 - Len(known)),
     full_community |-> known \o Take(sh.lst, 5 - Len(known)),
     opp_holes |-> deal_holes(Drop(sh.lst, 5 - Len(known)), opps)]

deal_trial(s, bdeck, known, opps) ==
    deal_from(shuffle_in_place(s, bdeck), known, opps)

\* Lines 368 to 386 for the ranks computed: the locals at the end of the pass,
\* the register, and what the pass adds to <<wins, ties>>.
compare_ranks(d, player_7, player_rank, opp_ranks) ==
    [seed |-> d.seed,
     shuffled |-> d.shuffled,
     community_rest |-> d.community_rest,
     full_community |-> d.full_community,
     opp_holes |-> d.opp_holes,
     player_7 |-> player_7,
     player_rank |-> player_rank,
     opp_ranks |-> opp_ranks,
     best_count |-> count_better(player_rank, opp_ranks),
     same_count |-> count_same(player_rank, opp_ranks),
     add |-> count_trial(count_better(player_rank, opp_ranks),
                         count_same(player_rank, opp_ranks))]

\* Lines 364 to 386 for the cards d dealt: the ranks and their comparison.
judge_trial(pcards, d) ==
    compare_ranks(d, pcards \o d.full_community,
                  rank_7cards(pcards \o d.full_community).val,
                  rank_each(d.opp_holes, d.full_community))

\* One pass of the loop, lines 347 to 386, with the register at s.
run_trial(s, bdeck, pcards, known, opps) ==
    judge_trial(pcards, deal_trial(s, bdeck, known, opps))

NoCall == [low |-> 0, high |-> 0, before |-> 0,
           call |-> [seed |-> 0, out |-> Raise("no call")]]

NoTrial == [n |-> 0]

NoResult == Raise("no result")

\* The hole cards, the boards and the decks simulate_win_probability is called
\* with: a deck is make_deck() of the model with cards popped from its end,
\* and the known community cards are the first cards of a board.
HeroHands ==
    {<<ModelDeck[i], ModelDeck[j]>> :
        <<i, j>> \in {<<1, 6>>, <<3, Len(ModelDeck)>>, <<Len(ModelDeck) - 1, 10>>}}

Board == <<<<4, 2>>, <<5, 2>>, <<6, 2>>, <<3, 2>>, <<2, 2>>>>

DeckSizes == {4 * r : r \in 1..(Len(ModelDeck) \div 4)}

InitRng ==
    /\ seed = InitialSeed
    /\ draws = 0
    /\ rnd = NoCall

InitSim ==
    /\ pc = "idle"
    /\ player_cards = <<>>
    /\ known_community = <<>>
    /\ num_opponents = 0
    /\ deck = <<>>
    /\ sims = 0
    /\ base_deck = <<>>
    /\ wins = 0
    /\ ties = 0
    /\ total = 0
    /\ trial = NoTrial
    /\ result = NoResult

Init == InitRng /\ InitSim /\ InitRank

\* A direct call rand_int(low, high), the limit-th at most, with low from lows
\* and high from highs.
RandIntCall(limit, lows, highs) ==
    /\ pc = "idle"
    /\ draws < limit
    /\ \E low \in lows, high \in highs :
          rnd' = [low |-> low, high |-> high, before |-> seed,
                  call |-> rand_int(seed, low, high)]
    /\ seed' = rnd'.call.seed
    /\ draws' = draws + 1
    /\ UNCHANGED <<simVars, rankVars>>

\* A call made before simulate_win_probability is entered, as the shuffle of
\* the deck makes them: rand_int(0, i).
WarmUp == RandIntCall(MaxWarm, {0}, {ArgMax})

Draw == RandIntCall(MaxCalls, (0 - ArgMax)..ArgMax, (0 - ArgMax)..ArgMax)

\* simulate_win_probability is entered: lines 328 to 342.
SimCall ==
    /\ pc = "idle"
    /\ \E pcards \in HeroHands, k \in 0..5, opps \in 0..MaxOpp,
          n \in DeckSizes, T \in 0..MaxSims :
          /\ player_cards' = pcards
          /\ known_community' = Take(Board, k)
          /\ num_opponents' = opps
          /\ deck' = Take(ModelDeck, n)
          /\ sims' = T
          /\ base_deck' = exclude_used(Take(ModelDeck, n), pcards \o Take(Board, k))
    /\ wins' = 0
    /\ ties' = 0
    /\ total' = 0
    /\ pc' = "loop"
    /\ rnd' = NoCall
    /\ UNCHANGED <<seed, draws, trial, result, rankVars>>

\* One pass of the loop: lines 345 to 386.  trial keeps the pass's locals, with
\* the counters as they were before it.  The pass writes to the list sim_deck
\* is bound to and to no list of the caller.
Trial ==
    /\ pc = "loop"
    /\ total < sims
    /\ trial' = [n |-> total + 1,
                 wins_before |-> wins,
                 ties_before |-> ties,
                 total_before |-> total,
                 locals |-> run_trial(seed, base_deck, player_cards,
                                      known_community, num_opponents)]
    /\ seed' = trial'.locals.seed
    /\ draws' = draws + shuffle_draws(base_deck)
    /\ wins' = wins + trial'.locals.add[1]
    /\ ties' = ties + trial'.locals.add[2]
    /\ total' = total + 1
    /\ base_deck' = lists_after(base_deck, slice_copy("base_deck"),
                                trial'.locals.shuffled)["base_deck"]
    /\ UNCHANGED <<rnd, pc, player_cards, known_community, num_opponents, deck,
                   sims, result, rankVars>>

\* The loop is over: line 390, float(wins + ties) / float(total), kept as the
\* pair of its numerator and its denominator.
SimReturn ==
    /\ pc = "loop"
    /\ total >= sims
    /\ result' = IF total = 0 THEN Raise("ZeroDivisionError")
                 ELSE Ret(<<wins + ties, total>>)
    /\ pc' = "done"
    /\ UNCHANGED <<rngVars, player_cards, known_community, num_opponents, deck,
                   sims, base_deck, wins, ties, total, trial, rankVars>>

Next ==
    \/ WarmUp
    \/ SimCall
    \/ Trial
    \/ SimReturn

Spec == Init /\ [][Next]_vars

NextRng == Draw

SpecRng == Init /\ [][NextRng]_vars

SpecRank == Init /\ [][NextRank]_vars

(***************************************************************************)
(* The properties.                                                         *)
(***************************************************************************)
\* hand is a list rank_5cards (n = 5) or rank_7cards (n = 7) is meant for.
ValidHand(n) == Len(hand) = n /\ Distinct(hand)

\* The sets of five positions of a list of seven.
FiveOfSeven == {I \in SUBSET (1..7) : Cardinality(I) = 5}

RECURSIVE PickDown(_, _)
\* The cards of lst at the positions I, the last position first.
PickDown(lst, I) ==
    IF I = {} THEN <<>>
    ELSE LET m == CHOOSE i \in I : \A k \in I : k <= i
         IN  <<lst[m]>> \o PickDown(lst, I \ {m})

\* C1: for a list of 7 distinct cards rank_7cards returns a tuple that no
\* 5-card sub-selection's rank_5cards tuple exceeds, that is the rank_5cards
\* tuple of at least one sub-selection, and that is not the sentinel (0,).
C1_BestOfSeven ==
    (ranked.fn = "rank_7cards" /\ ValidHand(7)) =>
        /\ Returned(ranked.res)
        /\ ranked.res.val # <<0>>
        /\ \A I \in FiveOfSeven :
              ~TupleGT(rank_5cards(PickDown(hand, I)).val, ranked.res.val)
        /\ \E I \in FiveOfSeven :
              rank_5cards(PickDown(hand, I)).val = ranked.res.val

\* A straight flush found among 7 cards whose first five are no straight flush.
C1_Witness ==
    /\ ranked.fn = "rank_7cards"
    /\ ValidHand(7)
    /\ ranked.res.val[1] = 9
    /\ rank_5cards(SubSeq(hand, 1, 5)).val[1] < 9

(***************************************************************************)
(* The classification of a 5-card hand in the precedence order of the     *)
(* specification, stated on the set of ranks and their multiplicities.    *)
(***************************************************************************)
RanksOf(h) == {h[i][1] : i \in 1..Len(h)}

SuitsOf(h) == {h[i][2] : i \in 1..Len(h)}

\* The ranks that occur exactly n times in h.
RanksWith(h, n) ==
    {r \in RanksOf(h) : Cardinality({i \in 1..Len(h) : h[i][1] = r}) = n}

Highest(S) == CHOOSE x \in S : \A y \in S : y <= x

Lowest(S) == CHOOSE x \in S : \A y \in S : x <= y

RECURSIVE Descending(_)
\* The elements of a set of ranks, the highest first.
Descending(S) ==
    IF S = {} THEN <<>>
    ELSE <<Highest(S)>> \o Descending(S \ {Highest(S)})

IsFlush(h) == Cardinality(SuitsOf(h)) = 1

IsWheel(h) == RanksOf(h) = {14, 5, 4, 3, 2}

IsStraight(h) ==
    /\ Cardinality(RanksOf(h)) = 5
    /\ (Highest(RanksOf(h)) - Lowest(RanksOf(h)) = 4 \/ IsWheel(h))

StraightTop(h) == IF IsWheel(h) THEN 5 ELSE Highest(RanksOf(h))

SpecClassify(h) ==
    IF IsFlush(h) /\ IsStraight(h) THEN <<9, StraightTop(h)>>
    ELSE IF RanksWith(h, 4) # {}
         THEN <<8>> \o Descending(RanksWith(h, 4)) \o Descending(RanksWith(h, 1))
    ELSE IF RanksWith(h, 3) # {} /\ RanksWith(h, 2) # {}
         THEN <<7>> \o Descending(RanksWith(h, 3)) \o Descending(RanksWith(h, 2))
    ELSE IF IsFlush(h) THEN <<6>> \o Descending(RanksOf(h))
    ELSE IF IsStraight(h) THEN <<5, StraightTop(h)>>
    ELSE IF RanksWith(h, 3) # {}
         THEN <<4>> \o Descending(RanksWith(h, 3)) \o Descending(RanksWith(h, 1))
    ELSE IF Cardinality(RanksWith(h, 2)) = 2
         THEN <<3>> \o Descending(RanksWith(h, 2)) \o Descending(RanksWith(h, 1))
    ELSE IF RanksWith(h, 2) # {}
         THEN <<2>> \o Descending(RanksWith(h, 2)) \o Descending(RanksWith(h, 1))
    ELSE <<1>> \o Descending(RanksOf(h))

\* C2: for a list of 5 distinct cards rank_5cards returns the descriptor the
\* specification's classification gives when its categories are tried in the
\* stated precedence order (straight flush, quads, full house, flush,
\* straight, trips, two pair, pair, high card; A-5-4-3-2 is a straight with
\* top rank 5), although the code tries the groups before flush and straight.
C2_SpecOrder ==
    (ranked.fn = "rank_5cards" /\ ValidHand(5)) =>
        ranked.res = Ret(SpecClassify(hand))

\* A wheel that is no flush: category 5 with top rank 5.
C2_Witness ==
    /\ ranked.fn = "rank_5cards"
    /\ ValidHand(5)
    /\ IsWheel(hand)
    /\ ranked.res = Ret(<<5, 5>>)

(***************************************************************************)
(* The trials of simulate_win_probability.                                 *)
(***************************************************************************)
\* The cards the request needs: the rest of the board and two per opponent.
CardsNeeded == (5 - Len(known_community)) + 2 * num_opponents

Sufficient == Len(base_deck) >= CardsNeeded

\* A pass of the loop has been made.
Dealt == pc # "idle" /\ trial # NoTrial

\* The hero's and the i-th opponent's rank_7cards result in the last trial:
\* the locals player_rank and opp_rank, which are the ranks of the 7-card lists.
HeroRank == trial.locals.player_rank

OppRank(i) == trial.locals.opp_ranks[i]

RanksOfHands ==
    /\ HeroRank = rank_7cards(player_cards \o trial.locals.full_community).val
    /\ Len(trial.locals.opp_ranks) = num_opponents
    /\ \A i \in 1..num_opponents :
          OppRank(i) = rank_7cards(trial.locals.opp_holes[i]
                                   \o trial.locals.full_community).val

IsLoss == \E i \in 1..num_opponents : TupleGT(OppRank(i), HeroRank)

IsTie == ~IsLoss /\ \E i \in 1..num_opponents : OppRank(i) = HeroRank

IsWin == ~IsLoss /\ ~IsTie

\* C3: with sims >= 1 and a sufficient deck a trial is a loss if an opponent's
\* rank_7cards result exceeds the hero's, else a tie if an opponent's equals
\* it, else a win; it adds 1 to wins exactly when it is a win, 1 to ties
\* exactly when it is a tie and 1 to total always, so wins + ties <= total;
\* at return total = sims and the value is (wins + ties) / sims, in [0, 1].
C3_TrialCounted ==
    (pc # "idle" /\ sims >= 1 /\ Sufficient) =>
        /\ wins + ties <= total
        /\ total <= sims
        /\ Dealt =>
              /\ RanksOfHands
              /\ wins = trial.wins_before + (IF IsWin THEN 1 ELSE 0)
              /\ ties = trial.ties_before + (IF IsTie THEN 1 ELSE 0)
              /\ total = trial.total_before + 1
              /\ trial.wins_before + trial.ties_before <= trial.total_before
        /\ pc = "done" =>
              /\ total = sims
              /\ result = Ret(<<wins + ties, sims>>)
              /\ 0 <= wins + ties
              /\ wins + ties <= sims

\* Two trials against two opponents returned as 1/2: a tie, then a loss.
C3_Witness ==
    /\ pc = "done"
    /\ Sufficient
    /\ sims = 2
    /\ num_opponents = 2
    /\ trial.ties_before = 1
    /\ IsLoss
    /\ result = Ret(<<1, 2>>)

(***************************************************************************)
(* The generator.  The recurrence is computed a second way, by doubling    *)
(* and adding along the bits of the multiplier, every step reduced.        *)
(***************************************************************************)
\* (x + x) mod 2^31 and (x + y) mod 2^31 for x, y in 0..2^31 - 1.
TwiceMod(x) == IF x >= 2^30 THEN (x - 2^30) + (x - 2^30) ELSE x + x

PlusMod(x, y) ==
    LET lo == (x % 2^30) + (y % 2^30)
        hi == (x \div 2^30) + (y \div 2^30) + (lo \div 2^30)
    IN  (hi % 2) * 2^30 + (lo % 2^30)

RECURSIVE TimesFrom(_, _, _)
\* (acc + x * b) mod 2^31, b taken bit by bit from its low end.
TimesFrom(x, b, acc) ==
    IF b = 0 THEN acc
    ELSE LET sum == IF b % 2 = 1 THEN PlusMod(acc, x) ELSE acc
             dbl == TwiceMod(x)
         IN  IF sum = dbl THEN TimesFrom(dbl, b \div 2, dbl)
             ELSE TimesFrom(dbl, b \div 2, sum)

TimesMod(x, b) == TimesFrom(x, b, 0)

RecurrenceAfter(s) == PlusMod(TimesMod(s, Multiplier), Increment)

\* C4: from the seed 5674832 and after any sequence of calls, rand_int(low,
\* high) with low <= high sets the register to (1103515245 * s + 12345) mod
\* 2147483648, returns low + (register mod (high - low + 1)), a value in
\* [low, high]; the register is in [0, 2147483648) after every call.
C4_Generator ==
    /\ 0 <= seed
    /\ seed <= ModulusLessOne
    /\ (rnd # NoCall /\ rnd.low <= rnd.high) =>
          /\ seed = RecurrenceAfter(rnd.before)
          /\ rnd.call.out = Ret(rnd.low + (seed % (rnd.high - rnd.low + 1)))
          /\ rnd.low <= rnd.call.out.val
          /\ rnd.call.out.val <= rnd.high

\* A later call over a range of several values that returns its upper end.
C4_Witness ==
    /\ draws > 1
    /\ rnd.low < 0
    /\ rnd.high > 0
    /\ rnd.call.out = Ret(rnd.high)
    /\ seed # InitialSeed

(***************************************************************************)
(* Lists the ranking engine is not meant for.                              *)
(***************************************************************************)
\* C5: rank_5cards called with a list that is not 5 distinct cards, and
\* rank_7cards called with a list that is not 7 distinct cards, raise an
\* error and return no hand-strength tuple.
C5_InvalidRejected ==
    /\ (ranked.fn = "rank_5cards" /\ ~ValidHand(5)) => ~Returned(ranked.res)
    /\ (ranked.fn = "rank_7cards" /\ ~ValidHand(7)) => ~Returned(ranked.res)

\* rank_7cards has returned the best of the sub-selections of MaxHand cards.
C5_Witness ==
    /\ ranked.fn = "rank_7cards"
    /\ Len(hand) = MaxHand
    /\ Distinct(hand)
    /\ Returned(ranked.res)
    /\ \E I \in SUBSET (1..MaxHand) :
          /\ Cardinality(I) = 5
          /\ rank_5cards(PickDown(hand, I)) = ranked.res

(***************************************************************************)
(* Requests simulate_win_probability and rand_int are not meant for.      *)
(***************************************************************************)
\* C6: simulate_win_probability called with a deck that, the hero's and the
\* known community cards removed, has fewer than (5 - len(known_community))
\* + 2 * num_opponents cards raises an error: no trial is made and no
\* probability is returned.
C6_InsufficientRejected ==
    (pc # "idle" /\ ~Sufficient) =>
        /\ ~Dealt
        /\ ~Returned(result)

\* A probability returned after a trial with a board of fewer than 5 cards and
\* an opponent with fewer than 2 hole cards.
C6_Witness ==
    /\ pc = "done"
    /\ ~Sufficient
    /\ Returned(result)
    /\ Len(trial.locals.full_community) < 5
    /\ \E i \in 1..num_opponents : Len(trial.locals.opp_holes[i]) < 2

\* C7: rand_int(low, high) called with low > high raises an error, returns no
\* integer and leaves the register as it was.
C7_RangeRejected ==
    (rnd # NoCall /\ rnd.low > rnd.high) =>
        /\ ~Returned(rnd.call.out)
        /\ seed = rnd.before

\* rand_int has returned an integer for low > high + 1.
C7_Witness ==
    /\ rnd # NoCall
    /\ rnd.low > rnd.high + 1
    /\ Returned(rnd.call.out)
    /\ seed # rnd.before

(***************************************************************************)
(* No opponents; reordered hands; the cards of a trial.                    *)
(***************************************************************************)
\* C8: with num_opponents = 0, sims >= 1 and at least 5 - len(known_community)
\* cards left in the deck every trial is counted as a win and none as a tie,
\* and the call returns sims / sims = 1.0 with wins = total = sims, ties = 0.
C8_NoOpponents ==
    (pc # "idle" /\ num_opponents = 0 /\ sims >= 1
        /\ Len(base_deck) >= 5 - Len(known_community)) =>
        /\ ties = 0
        /\ wins = total
        /\ pc = "done" =>
              /\ wins = sims
              /\ total = sims
              /\ result = Ret(<<sims, sims>>)

\* MaxSims trials without opponents, the board completed from the deck.
C8_Witness ==
    /\ pc = "done"
    /\ num_opponents = 0
    /\ sims = MaxSims
    /\ Len(known_community) < 5
    /\ Len(base_deck) >= 5 - Len(known_community)
    /\ trial.n = MaxSims
    /\ result = Ret(<<MaxSims, MaxSims>>)

\* The reorderings of a list of 5: all of them, and three that generate them.
Reorderings == {p \in [1..5 -> 1..5] : \A i, j \in 1..5 : i # j => p[i] # p[j]}

SomeReorderings ==
    {<<2, 1, 3, 4, 5>>, <<2, 3, 4, 5, 1>>, <<5, 4, 3, 2, 1>>}

Reordered(lst, p) == [i \in 1..5 |-> lst[p[i]]]

\* C9: rank_5cards returns the same tuple for a list of 5 distinct cards and
\* for a reordering of the list: for every reordering of the lists of cards
\* that InLong admits, and for an exchange, a rotation and the reversal of
\* every other list.
C9_OrderIrrelevant ==
    (ranked.fn = "rank_5cards" /\ ValidHand(5)) =>
        \A p \in IF \A k \in 1..5 : InLong(hand[k])
                 THEN Reorderings ELSE SomeReorderings :
            rank_5cards(Reordered(hand, p)) = ranked.res

\* Two pair with the kicker between the pairs, listed from the lowest rank up.
C9_Witness ==
    /\ ranked.fn = "rank_5cards"
    /\ ValidHand(5)
    /\ \A k \in 1..5 : InLong(hand[k])
    /\ hand[1][1] < hand[3][1]
    /\ hand[3][1] < hand[5][1]
    /\ ranked.res = Ret(<<3, hand[5][1], hand[1][1], hand[3][1]>>)
    /\ rank_5cards(Reordered(hand, <<3, 5, 1, 4, 2>>)) = ranked.res

\* The hole cards of all opponents, one after the other.
RECURSIVE AllHoles(_)
AllHoles(opp_holes) ==
    IF opp_holes = <<>> THEN <<>>
    ELSE Head(opp_holes) \o AllHoles(Tail(opp_holes))

\* C10: with a deck of distinct cards that is sufficient and distinct hero and
\* known community cards, in every trial the shuffled clone holds the cards
\* of base_deck, each once; the board is the known community cards followed
\* by the first 5 - len(known_community) cards of the clone; each opponent
\* gets the next 2 cards; and the hero's cards, the board and all hole cards
\* are pairwise distinct, so no list given to rank_7cards has a card twice.
C10_TrialCards ==
    (Dealt /\ Sufficient /\ Distinct(deck)
        /\ Distinct(player_cards \o known_community)) =>
        LET t == trial.locals
            rest == 5 - Len(known_community)
        IN  /\ Len(t.shuffled) = Len(base_deck)
            /\ \A i \in 1..Len(base_deck) :
                  /\ CountOf(t.shuffled, base_deck[i]) = 1
                  /\ CountOf(base_deck, t.shuffled[i]) = 1
            /\ t.full_community = known_community \o SubSeq(t.shuffled, 1, rest)
            /\ Len(t.full_community) = 5
            /\ Len(t.opp_holes) = num_opponents
            /\ \A i \in 1..num_opponents :
                  /\ t.opp_holes[i] =
                        SubSeq(t.shuffled, rest + 2 * i - 1, rest + 2 * i)
                  /\ Len(t.opp_holes[i] \o t.full_community) = 7
                  /\ Distinct(t.opp_holes[i] \o t.full_community)
            /\ t.player_7 = player_cards \o t.full_community
            /\ Len(t.player_7) = 7
            /\ Distinct(player_cards \o t.full_community \o AllHoles(t.opp_holes))

\* A second trial for MaxOpp opponents whose shuffle has moved the first cards.
C10_Witness ==
    /\ Dealt
    /\ Sufficient
    /\ Distinct(player_cards \o known_community)
    /\ trial.n = 2
    /\ num_opponents = MaxOpp
    /\ Len(known_community) = 2
    /\ Len(AllHoles(trial.locals.opp_holes)) = 2 * MaxOpp
    /\ SubSeq(trial.locals.shuffled, 1, 3) # SubSeq(base_deck, 1, 3)

(***************************************************************************)
(* What a trial leaves to the next one.                                    *)
(***************************************************************************)
\* The positions of the caller's deck whose card is neither a hole card of the
\* hero nor a known community card.
KeptAt ==
    {i \in 1..Len(deck) : ~InList(deck[i], player_cards \o known_community)}

\* base_deck holds the cards at those positions, in the order of the deck.
BaseOfDeck ==
    /\ Len(base_deck) = Cardinality(KeptAt)
    /\ \A k \in 1..Len(base_deck) :
          \E i \in KeptAt :
              /\ deck[i] = base_deck[k]
              /\ Cardinality({j \in KeptAt : j < i}) = k - 1

RECURSIVE DrawsFrom(_, _)
\* The register n draws after it was s.
DrawsFrom(s, n) ==
    IF n <= 0 THEN s
    ELSE LET t == RecurrenceAfter(s)
         IN  IF t = s THEN DrawsFrom(s, n - 1) ELSE DrawsFrom(t, n - 1)

\* C11: within one call of simulate_win_probability every step leaves the
\* caller's deck, player_cards and known_community and the list base_deck as
\* they are; every trial starts from base_deck, which is the caller's deck
\* without the hero's and the known community cards, in the caller's order,
\* and from the register alone; a trial advances the register by exactly
\* len(base_deck) - 1 draws when base_deck has a card, and the return by none.
C11_TrialFrame ==
    [][pc = "loop" =>
          /\ deck' = deck
          /\ player_cards' = player_cards
          /\ known_community' = known_community
          /\ base_deck' = base_deck
          /\ BaseOfDeck
          /\ total' = total + 1 =>
                /\ trial'.locals.shuffled = shuffle_in_place(seed, base_deck).lst
                /\ Len(base_deck) >= 1 =>
                      seed' = DrawsFrom(seed, Len(base_deck) - 1)
                /\ Len(base_deck) = 0 => seed' = seed
          /\ total' = total => seed' = seed]_vars

\* MaxSims trials returned from: each has shuffled its clone, base_deck is
\* still the deck without the hero's cards, and the register is
\* MaxSims * (len(base_deck) - 1) draws from the seed.
C11_Witness ==
    /\ pc = "done"
    /\ sims = MaxSims
    /\ trial.n = MaxSims
    /\ Len(base_deck) > 5
    /\ Len(base_deck) < Len(deck)
    /\ BaseOfDeck
    /\ trial.locals.shuffled # base_deck
    /\ draws = MaxSims * (Len(base_deck) - 1)
    /\ seed = DrawsFrom(InitialSeed, MaxSims * (Len(base_deck) - 1))

=============================================================================
